---- MODULE Spec2Model ----
(***************************************************************************)
(* Model of the cli-wallet transaction core: canonical hashing, single     *)
(* and multi-signature signing, threshold verification and the pending-    *)
(* transaction record (src/cli-wallet/transaction.py, multisig.py).        *)
(*                                                                         *)
(* Values.  A Python str is a sequence of naturals (its characters); a     *)
(* field that may be None is None (= <<>>) or Str(s) (= <<s>>).  bytes are *)
(* sequences of naturals as well.  SHA-256 is modelled as a collision-free *)
(* tagged wrapper around its input, ECDSA as an unforgeable pair (signing  *)
(* key, signed message).                                                   *)
(***************************************************************************)
EXTENDS Integers, Sequences, FiniteSets, TLC

VARIABLES tx, file, last, edits, config_file, ret, sess

(* the multi-sig config file and what the last call into multisig.py gave *)
cfgvars == <<config_file, ret>>

vars == <<tx, file, last, edits, config_file, ret, sess>>

----------------------------------------------------------------------------
(* Bounds of the model *)

NumKeys == 3
MaxM == 2
MaxEdits == 1

(* Key pairs that exist: key k has the private key k and the public key   *)
(* hex string KeyHex(k).                                                   *)
Keys == 1..NumKeys

(* Wallet files handed to the signing operations: one per key, and the    *)
(* wallet 0 that load_private_key cannot load (missing file, wrong        *)
(* password).                                                              *)
NoWallet == 0
Wallets == Keys \cup {NoWallet}

----------------------------------------------------------------------------
(* Python values *)

None == <<>>
Str(s) == <<s>>
Truthy(v) == v # None /\ v[1] # <<>>

(* dict entries of the hashed payload: a key is absent or carries a value *)
Absent == <<>>
In(v) == <<v>>

TX_STANDARD == "standard"
TX_CONTRACT_DEPLOY == "contract_deployment"
TX_CONTRACT_CALL == "contract_call"

(* get_public_key_bytes(...).hex(): the uncompressed point, marker 04     *)
(* followed by the coordinates (here the key's number).                    *)
get_public_key_bytes(k) == <<4, k>>

(* lexicographic order of Python strings *)
RECURSIVE StrLess(_, _)
StrLess(a, b) ==
    IF b = <<>> THEN FALSE
    ELSE IF a = <<>> THEN TRUE
    ELSE IF Head(a) < Head(b) THEN TRUE
    ELSE IF Head(a) > Head(b) THEN FALSE
    ELSE StrLess(Tail(a), Tail(b))

Range(s) == {s[i] : i \in 1..Len(s)}

(* sorted(list(set(l))) for a list of strings *)
RECURSIVE SortedSet(_)
SortedSet(S) ==
    IF S = {} THEN <<>>
    ELSE LET m == CHOOSE x \in S : \A y \in S \ {x} : StrLess(x, y)
         IN  <<m>> \o SortedSet(S \ {m})

sorted_list_set(l) == SortedSet(Range(l))

(* faulty variant: the new entry goes to the end whatever its key *)
InsertByKey_append(s, x) == Append(s, x)

(* list.sort(key=lambda s: s.public_key_hex): a stable sort *)
RECURSIVE InsertByKey(_, _)
InsertByKey(s, x) ==
    IF s = <<>> THEN <<x>>
    ELSE IF StrLess(x.public_key_hex, Head(s).public_key_hex)
         THEN <<x>> \o s
         ELSE <<Head(s)>> \o InsertByKey(Tail(s), x)

(* faulty variant: the list is left in append order *)
sort_signers_unsorted(s) == s

RECURSIVE sort_signers(_)
sort_signers(s) ==
    IF s = <<>> THEN <<>>
    ELSE InsertByKey(sort_signers(SubSeq(s, 1, Len(s) - 1)), s[Len(s)])

(* base64.b64encode(b).decode('utf-8') and base64.b64decode: an injective *)
(* re-coding of bytes as text and its inverse                              *)
B64Shift == 1000
b64encode(b) == [i \in 1..Len(b) |-> b[i] + B64Shift]
b64decode(t) == [i \in 1..Len(t) |-> t[i] - B64Shift]

(* hashlib.sha256(json_bytes).hexdigest() of the canonical payload *)
sha256(data) == [sha256 |-> data]

(* hashlib.sha256 fed with raw bytes, .hexdigest(): a string that is no   *)
(* public key (ShaTag is no key marker) and that determines its input      *)
ShaTag == 256
sha256_hex(bytes) == <<ShaTag>> \o bytes

RECURSIVE Concat(_)
Concat(l) == IF l = <<>> THEN <<>> ELSE Head(l) \o Concat(Tail(l))

(* Hex strings.  A character of a hex string is a number: the marker 4   *)
(* stands for the digits "04", a positive number for lower-case hex       *)
(* digits, the same number less CaseOffset for the same digits in upper   *)
(* case (which sort before the lower-case ones), NotHex for a character   *)
(* that is no hex digit.  bytes.hex() writes lower case.                   *)
CaseOffset == 32
NotHex == 99
upper(h) == [i \in 1..Len(h) |-> IF h[i] = 4 THEN 4 ELSE h[i] - CaseOffset]

(* bytes.fromhex: the bytes, whatever the case of the digits, or the      *)
(* ValueError for a string that is not hex                                 *)
fromhex(h) ==
    IF \E i \in 1..Len(h) : h[i] = NotHex
    THEN [ok |-> FALSE, bytes |-> <<>>]
    ELSE [ok |-> TRUE,
          bytes |-> [i \in 1..Len(h) |->
                        IF h[i] < 0 THEN h[i] + CaseOffset ELSE h[i]]]

(* pubkey_hex.startswith('04') *)
startswith04(h) == Len(h) > 0 /\ h[1] = 4

(* faulty variant: the keys are hashed in the order given *)
sorted_pubkey_hex_list_as_given(authorized_pubkey_hex_list) == authorized_pubkey_hex_list

(* derive_multisig_address: sorted(list(set(authorized_pubkey_hex_list))) *)
sorted_pubkey_hex_list(authorized_pubkey_hex_list) == sorted_list_set(authorized_pubkey_hex_list)

(* faulty variant: the threshold byte is not fed to the hash *)
hasher_input_without_m(m_required, pubkey_hex_list) == Concat([i \in 1..Len(pubkey_hex_list) |-> fromhex(pubkey_hex_list[i]).bytes])

(* derive_multisig_address: what hasher.update is given, in all: the byte *)
(* M and the bytes of each key                                             *)
hasher_input(m_required, pubkey_hex_list) == <<m_required>> \o Concat([i \in 1..Len(pubkey_hex_list) |-> fromhex(pubkey_hex_list[i]).bytes])

(* multisig.derive_multisig_address: the identifier, or the ValueError    *)
KeyHexLen == 2
MaxByte == 255
derive_multisig_address(m_required, authorized_pubkey_hex_list) ==
    LET sorted_list == sorted_pubkey_hex_list(authorized_pubkey_hex_list)
        Bad == [ok |-> FALSE, address |-> <<>>]
    IN  IF ~(1 <= m_required /\ m_required <= Len(authorized_pubkey_hex_list))
        THEN Bad
        ELSE IF Len(authorized_pubkey_hex_list) = 0 THEN Bad
        ELSE IF Len(sorted_list) # Len(authorized_pubkey_hex_list)
        THEN Bad
        ELSE IF m_required > MaxByte THEN Bad
        ELSE IF \E i \in 1..Len(sorted_list) :
                   LET pubkey_hex == sorted_list[i]
                       pubkey_bytes == fromhex(pubkey_hex)
                   IN  \/ ~pubkey_bytes.ok
                       \/ ~startswith04(pubkey_hex)
                       \/ Len(pubkey_bytes.bytes) # KeyHexLen
        THEN Bad
        ELSE [ok |-> TRUE,
              address |-> sha256_hex(hasher_input(m_required, sorted_list))]

----------------------------------------------------------------------------
(* Multi-sig configuration (multisig.py) *)

(* wallet.load_private_key: the signing key of the wallet, or an          *)
(* exception for a wallet that cannot be read or decrypted                 *)
load_private_key(w) ==
    IF w \in Keys THEN [ok |-> TRUE, key |-> w] ELSE [ok |-> FALSE, key |-> 0]

(* wallet.public_key_to_address: get_public_key_bytes(public_key).hex()   *)
public_key_to_address(k) == get_public_key_bytes(k)

(* sorted(l) for a list of strings *)
RECURSIVE InsertStr(_, _)
InsertStr(l, x) ==
    IF l = <<>> THEN <<x>>
    ELSE IF StrLess(x, Head(l)) THEN <<x>> \o l
    ELSE <<Head(l)>> \o InsertStr(Tail(l), x)

RECURSIVE sorted(_)
sorted(l) ==
    IF l = <<>> THEN <<>>
    ELSE InsertStr(sorted(SubSeq(l, 1, Len(l) - 1)), l[Len(l)])

(* faulty variant: the key list is stored in the order of the wallets *)
sorted_authorized_pubkey_hex_list_unsorted(authorized_pubkey_hex_list) == authorized_pubkey_hex_list

(* create_multisig_config: sorted(authorized_pubkey_hex_list) *)
sorted_authorized_pubkey_hex_list(authorized_pubkey_hex_list) == sorted(authorized_pubkey_hex_list)

(* multisig.create_multisig_config: the config_data written to the file,  *)
(* or the ValueError; a wallet is any of Wallets (0 cannot be loaded),    *)
(* n_passwords is len(passwords)                                           *)
create_multisig_config(m_required, authorized_wallet_files, n_passwords) ==
    LET Bad == [ok |-> FALSE, config_data |-> <<>>]
        authorized_pubkey_hex_list ==
            [i \in 1..Len(authorized_wallet_files) |->
                public_key_to_address(authorized_wallet_files[i])]
        sorted_list == sorted_authorized_pubkey_hex_list(authorized_pubkey_hex_list)
        multisig_address == derive_multisig_address(m_required, sorted_list)
    IN  IF Len(authorized_wallet_files) # n_passwords THEN Bad
        ELSE IF m_required <= 0 \/ m_required > Len(authorized_wallet_files)
        THEN Bad
        ELSE IF \E i \in 1..Len(authorized_wallet_files) :
                   ~load_private_key(authorized_wallet_files[i]).ok
        THEN Bad
        ELSE IF Cardinality(Range(authorized_pubkey_hex_list))
                   # Len(authorized_pubkey_hex_list)
        THEN Bad
        ELSE IF ~multisig_address.ok THEN Bad
        ELSE [ok |-> TRUE,
              config_data |->
                 <<[m_required |-> m_required,
                    authorized_public_keys_hex |-> sorted_list,
                    multisig_address_hex |-> multisig_address.address,
                    n_total_keys |-> Len(sorted_list)]>>]

(* faulty variant: the stored identifier is not compared *)
address_mismatch_ignored(re_derived_address, config_data) == FALSE

(* load_multisig_config: re_derived_address != multisig_address_hex *)
address_mismatch(re_derived_address, config_data) == re_derived_address # config_data.multisig_address_hex

(* multisig.load_multisig_config: the config_data returned, or the error  *)
(* raised; f is the content of the file, or <<>> for no file               *)
load_multisig_config(f) ==
    IF f = <<>>
    THEN [outcome |-> "not_found", config_data |-> <<>>]
    ELSE LET config_data == f[1]
             re_derived_address ==
                 derive_multisig_address(config_data.m_required,
                                         config_data.authorized_public_keys_hex)
    IN  IF \/ config_data.m_required <= 0
           \/ config_data.m_required > config_data.n_total_keys
        THEN [outcome |-> "invalid_m_n", config_data |-> <<>>]
        ELSE IF Len(config_data.authorized_public_keys_hex)
                   # config_data.n_total_keys
        THEN [outcome |-> "n_mismatch", config_data |-> <<>>]
        ELSE IF ~re_derived_address.ok
        THEN [outcome |-> "derive_error", config_data |-> <<>>]
        ELSE IF address_mismatch(re_derived_address.address, config_data)
        THEN [outcome |-> "address_mismatch", config_data |-> <<>>]
        ELSE [outcome |-> "ok", config_data |-> <<config_data>>]

----------------------------------------------------------------------------
(* Transaction *)

(* Transaction.__init__, called with the keyword arguments kw *)
Transaction(kw) ==
    [ id_hex |-> kw.tx_id_hex,
      timestamp |-> kw.timestamp,
      from_address_hex |-> kw.from_address_hex,
      public_key_hex |-> kw.public_key_hex,
      signature_hex |-> kw.signature_hex,
      tx_type |-> kw.tx_type,
      to_address_hex |-> kw.to_address_hex,
      amount |-> kw.amount,
      fee |-> kw.fee,
      contract_code_bytes |-> kw.contract_code_bytes,
      target_contract_address_hex |-> kw.target_contract_address_hex,
      function_name |-> kw.function_name,
      arguments_bytes |-> kw.arguments_bytes,
      required_signatures |-> kw.required_signatures,
      authorized_public_keys_hex |->
          IF kw.authorized_public_keys_hex # <<>>
          THEN sorted_list_set(kw.authorized_public_keys_hex) ELSE <<>>,
      signers |-> kw.signers ]

(* json.dumps(d, sort_keys=True, separators=(',', ':')).encode('utf-8'):  *)
(* the canonical text of a dict, which depends on its entries only         *)
json_dumps(d) == [json |-> d]

(* payload_to_hash in Transaction.data_for_hashing; a key the code does   *)
(* not put in the dict is Absent.                                          *)
payload_to_hash(t) ==
    [ Fee |-> In(t.fee),
      From |-> In(t.from_address_hex),
      Timestamp |-> In(t.timestamp),
      TxType |-> In(t.tx_type),
      PublicKey |->
          IF Truthy(t.public_key_hex) /\ t.required_signatures = 0
          THEN In(t.public_key_hex) ELSE Absent,
      To |->
          IF t.tx_type = TX_STANDARD /\ t.to_address_hex # None
          THEN In(t.to_address_hex) ELSE Absent,
      Amount |->
          IF t.tx_type \in {TX_STANDARD, TX_CONTRACT_DEPLOY, TX_CONTRACT_CALL}
          THEN In(t.amount) ELSE Absent,
      ContractCode |->
          IF t.tx_type = TX_CONTRACT_DEPLOY /\ t.contract_code_bytes # None
          THEN In(b64encode(t.contract_code_bytes[1])) ELSE Absent,
      TargetContractAddress |->
          IF t.tx_type = TX_CONTRACT_CALL /\ t.target_contract_address_hex # None
          THEN In(t.target_contract_address_hex) ELSE Absent,
      FunctionName |->
          IF t.tx_type = TX_CONTRACT_CALL /\ t.function_name # None
          THEN In(t.function_name) ELSE Absent,
      Arguments |->
          IF t.tx_type = TX_CONTRACT_CALL /\ t.arguments_bytes # None
          THEN In(b64encode(t.arguments_bytes[1])) ELSE Absent,
      RequiredSignatures |->
          IF t.required_signatures > 0 /\ Len(t.authorized_public_keys_hex) > 0
          THEN In(t.required_signatures) ELSE Absent,
      AuthorizedPublicKeys |->
          IF t.required_signatures > 0 /\ Len(t.authorized_public_keys_hex) > 0
          THEN In(sorted_list_set(t.authorized_public_keys_hex)) ELSE Absent ]

(* faulty variant: an encoder that leaves the recipient out *)
data_for_hashing_without_to(t) ==
    json_dumps([payload_to_hash(t) EXCEPT !.To = Absent])

(* Transaction.data_for_hashing *)
data_for_hashing(t) == json_dumps(payload_to_hash(t))

(* Transaction.calculate_hash *)
calculate_hash(t) == sha256(data_for_hashing(t))

----------------------------------------------------------------------------
(* Keys and signatures *)

(* signing_key.sign(content_hash_bytes, ECDSA(Prehashed(SHA256))).hex():  *)
(* the digest itself is the signed message                                 *)
ecdsa_sign(k, content_hash) ==
    [signer |-> get_public_key_bytes(k), msg |-> content_hash]

(* bytes.fromhex + EllipticCurvePublicKey.from_encoded_point + verify;    *)
(* any exception (not a point, bad signature) is a failed verification     *)
ecdsa_verify(public_key_hex, signature, content_hash) ==
    /\ \E k \in Keys : public_key_hex = get_public_key_bytes(k)
    /\ signature.signer = public_key_hex
    /\ signature.msg = content_hash

SignerInfo(public_key_hex, signature_hex) ==
    [public_key_hex |-> public_key_hex, signature_hex |-> signature_hex]

(* SignerInfo.to_dict *)
SignerInfo_to_dict(s) ==
    [publicKeyHex |-> s.public_key_hex, signatureHex |-> s.signature_hex]

(* SignerInfo.from_dict *)
SignerInfo_from_dict(d) == SignerInfo(d.publicKeyHex, d.signatureHex)

SignerKeys(t) == [i \in 1..Len(t.signers) |-> t.signers[i].public_key_hex]

----------------------------------------------------------------------------
(* Signing engine.  An operation returns the transaction it leaves behind *)
(* and its outcome: "ok", or the exception it raised.                      *)

(* faulty variant: a sender that differs from the signer is kept *)
sign_single_keeping_sender(t, w) ==
    IF t.required_signatures > 0
    THEN [tx |-> t, outcome |-> "mode_error"]
    ELSE LET loaded == load_private_key(w) IN
    IF ~loaded.ok
    THEN [tx |-> t, outcome |-> "load_error"]
    ELSE LET pk == Str(get_public_key_bytes(loaded.key))
             t1 == [t EXCEPT !.public_key_hex = pk]
             content_hash_hex == calculate_hash(t1)
             t3 == [t1 EXCEPT !.id_hex = Str(content_hash_hex)]
         IN  [tx |-> [t3 EXCEPT !.signature_hex =
                          Str(ecdsa_sign(loaded.key, content_hash_hex))],
              outcome |-> "ok"]

(* Transaction.sign_single *)
sign_single(t, w) ==
    IF t.required_signatures > 0
    THEN [tx |-> t, outcome |-> "mode_error"]
    ELSE LET loaded == load_private_key(w) IN
    IF ~loaded.ok
    THEN [tx |-> t, outcome |-> "load_error"]
    ELSE LET pk == Str(get_public_key_bytes(loaded.key))
             t1 == [t EXCEPT !.public_key_hex = pk]
             t2 == IF t1.from_address_hex # t1.public_key_hex
                   THEN [t1 EXCEPT !.from_address_hex = t1.public_key_hex]
                   ELSE t1
             content_hash_hex == calculate_hash(t2)
             t3 == [t2 EXCEPT !.id_hex = Str(content_hash_hex)]
         IN  [tx |-> [t3 EXCEPT !.signature_hex =
                          Str(ecdsa_sign(loaded.key, content_hash_hex))],
              outcome |-> "ok"]

(* faulty variant: add_signature without its mode guard *)
is_multisig_configured_always(t) == TRUE

(* the multi-sig guard of add_signature and data_for_hashing *)
is_multisig_configured(t) ==
    t.required_signatures > 0 /\ Len(t.authorized_public_keys_hex) > 0

(* faulty variant: every key passes the authorization test *)
is_authorized_anyone(t, signer_public_key_hex) == TRUE

(* add_signature: signer_public_key_hex in self.authorized_public_keys_hex *)
is_authorized(t, signer_public_key_hex) ==
    signer_public_key_hex \in Range(t.authorized_public_keys_hex)

(* faulty variant: the existing entries are not looked at *)
already_signed_unchecked(t, signer_public_key_hex) == FALSE

(* add_signature: the loop looking for an entry of this key *)
already_signed(t, signer_public_key_hex) ==
    \E i \in 1..Len(t.signers) :
        t.signers[i].public_key_hex = signer_public_key_hex

(* faulty variant: the stored id is not compared with the digest *)
id_mismatch_ignored(t, content_hash_hex) == FALSE

(* add_signature: elif self.id_hex != content_hash_hex: raise *)
id_mismatch(t, content_hash_hex) ==
    t.id_hex # None /\ t.id_hex # Str(content_hash_hex)

(* Transaction.add_signature *)
add_signature(t, w) ==
    IF ~is_multisig_configured(t)
    THEN [tx |-> t, outcome |-> "mode_error"]
    ELSE LET loaded == load_private_key(w) IN
    IF ~loaded.ok
    THEN [tx |-> t, outcome |-> "load_error"]
    ELSE LET signer_public_key_hex == get_public_key_bytes(loaded.key) IN
    IF ~is_authorized(t, signer_public_key_hex)
    THEN [tx |-> t, outcome |-> "unauthorized"]
    ELSE IF already_signed(t, signer_public_key_hex)
    THEN [tx |-> t, outcome |-> "ok"]
    ELSE LET content_hash_hex == calculate_hash(t) IN
    IF id_mismatch(t, content_hash_hex)
    THEN [tx |-> t, outcome |-> "content_mismatch"]
    ELSE LET t1 == IF t.id_hex = None
                   THEN [t EXCEPT !.id_hex = Str(content_hash_hex)] ELSE t
             signature_hex == ecdsa_sign(loaded.key, content_hash_hex)
         IN  [tx |-> [t1 EXCEPT !.signers = sort_signers(
                          Append(t1.signers,
                                 SignerInfo(signer_public_key_hex, signature_hex)))],
              outcome |-> "ok"]

----------------------------------------------------------------------------
(* Threshold verifier *)

(* the for loop of the multi-sig branch, from entry i on: seen is         *)
(* signed_pub_keys, valid is valid_unique_signatures                       *)
RECURSIVE verify_signers(_, _, _, _, _)
verify_signers(t, content_hash, i, seen, valid) ==
    IF i > Len(t.signers) THEN valid >= t.required_signatures
    ELSE LET signer_info == t.signers[i] IN
    IF signer_info.public_key_hex \notin Range(t.authorized_public_keys_hex)
    THEN FALSE
    ELSE IF signer_info.public_key_hex \in seen THEN FALSE
    ELSE IF ~ecdsa_verify(signer_info.public_key_hex,
                          signer_info.signature_hex, content_hash)
    THEN FALSE
    ELSE verify_signers(t, content_hash, i + 1,
                        seen \cup {signer_info.public_key_hex}, valid + 1)

(* faulty variant: the threshold test is off by one *)
verify_multisig_offbyone(t, content_hash_hex) ==
    IF Len(t.signers) <= t.required_signatures THEN FALSE
    ELSE verify_signers(t, content_hash_hex, 1, {}, 0)

(* faulty variant: entries that are not authorized, repeated or invalid   *)
(* are skipped, and the distinct valid authorized keys are counted         *)
verify_multisig_counting(t, content_hash_hex) ==
    Cardinality({k \in Range(t.authorized_public_keys_hex) :
                    \E i \in 1..Len(t.signers) :
                       /\ t.signers[i].public_key_hex = k
                       /\ ecdsa_verify(k, t.signers[i].signature_hex,
                                       content_hash_hex)})
        >= t.required_signatures

(* verify_signatures_python, the multi-sig branch *)
verify_multisig(t, content_hash_hex) ==
    IF Len(t.signers) < t.required_signatures THEN FALSE
    ELSE verify_signers(t, content_hash_hex, 1, {}, 0)

(* verify_signatures_python, the single-signer branch *)
verify_single(t, content_hash_hex) ==
    IF ~Truthy(t.public_key_hex) \/ t.signature_hex = None THEN FALSE
    ELSE ecdsa_verify(t.public_key_hex[1], t.signature_hex[1], content_hash_hex)

(* faulty variant: a stored id that is not the digest fails verification *)
verify_signatures_python_trusting_id(t) ==
    LET content_hash_hex == calculate_hash(t) IN
    IF t.id_hex # None /\ t.id_hex # Str(content_hash_hex) THEN FALSE
    ELSE IF t.required_signatures > 0
    THEN verify_multisig(t, content_hash_hex)
    ELSE verify_single(t, content_hash_hex)

(* Transaction.verify_signatures_python *)
verify_signatures_python(t) ==
    LET content_hash_hex == calculate_hash(t) IN
    IF t.required_signatures > 0
    THEN verify_multisig(t, content_hash_hex)
    ELSE verify_single(t, content_hash_hex)

----------------------------------------------------------------------------
(* Pending-transaction record *)

(* Transaction.to_dict_for_file *)
to_dict_for_file(t) ==
    [ id_hex |-> t.id_hex,
      timestamp |-> t.timestamp,
      from_address_hex |-> t.from_address_hex,
      public_key_hex |-> t.public_key_hex,
      signature_hex |-> t.signature_hex,
      tx_type |-> t.tx_type,
      to_address_hex |-> t.to_address_hex,
      amount |-> t.amount,
      fee |-> t.fee,
      contract_code_bytes_b64 |->
          IF Truthy(t.contract_code_bytes)
          THEN Str(b64encode(t.contract_code_bytes[1])) ELSE None,
      target_contract_address_hex |-> t.target_contract_address_hex,
      function_name |-> t.function_name,
      arguments_bytes_b64 |->
          IF Truthy(t.arguments_bytes)
          THEN Str(b64encode(t.arguments_bytes[1])) ELSE None,
      required_signatures |-> t.required_signatures,
      authorized_public_keys_hex |-> t.authorized_public_keys_hex,
      signers |-> [i \in 1..Len(t.signers) |-> SignerInfo_to_dict(t.signers[i])] ]

(* Transaction.from_dict_for_file *)
from_dict_for_file(data) ==
    Transaction(
      [ tx_id_hex |-> data.id_hex,
        timestamp |-> data.timestamp,
        from_address_hex |-> data.from_address_hex,
        public_key_hex |-> data.public_key_hex,
        signature_hex |-> data.signature_hex,
        tx_type |-> data.tx_type,
        to_address_hex |-> data.to_address_hex,
        amount |-> data.amount,
        fee |-> data.fee,
        contract_code_bytes |->
            IF Truthy(data.contract_code_bytes_b64)
            THEN Str(b64decode(data.contract_code_bytes_b64[1])) ELSE None,
        target_contract_address_hex |-> data.target_contract_address_hex,
        function_name |-> data.function_name,
        arguments_bytes |->
            IF Truthy(data.arguments_bytes_b64)
            THEN Str(b64decode(data.arguments_bytes_b64[1])) ELSE None,
        required_signatures |-> data.required_signatures,
        authorized_public_keys_hex |-> data.authorized_public_keys_hex,
        signers |-> [i \in 1..Len(data.signers) |->
                         SignerInfo_from_dict(data.signers[i])] ])

----------------------------------------------------------------------------
(* The state machine: one Transaction object in memory (tx), the pending- *)
(* transaction file (file), the last operation and how it ended (last),   *)
(* and the number of direct field edits made so far (edits).               *)

NoFile == <<>>

(* no call into multisig.py made yet *)
NoCall == [fn |-> "none"]

(* concurrent sign-tx sessions (processes of multisig_sign_tx_cmd): where *)
(* each one is, the wallet it signs with, the record it read and the      *)
(* Transaction object it holds                                             *)
NumSessions == 2
Sessions == 1..NumSessions
Idle == [pc |-> "idle", wallet |-> NoWallet, loaded |-> <<>>, tx |-> <<>>]
NoSessions == [s \in Sessions |-> Idle]

Op(op, wallet, outcome, result, field) ==
    [op |-> op, wallet |-> wallet, outcome |-> outcome, result |-> result,
     field |-> field]

(* values the callers pass *)
RecipientHex == <<4, 0>>
OtherRecipientHex == <<4, 9>>
ContractHex == <<5>>
FunctionNameStr == <<6>>
SomeBytes == <<7>>
KeyHexes == {get_public_key_bytes(k) : k \in Keys}

(* lists of authorized keys a caller may pass: any order, with repeats *)
RECURSIVE ListsUpTo(_, _)
ListsUpTo(S, n) ==
    IF n = 0 THEN {<<>>}
    ELSE LET shorter == ListsUpTo(S, n - 1)
         IN  shorter \cup {Append(l, x) : l \in shorter, x \in S}

AuthLists == ListsUpTo(KeyHexes, NumKeys)

(* kind-specific arguments of the constructor *)
OptBytes == {None, Str(<<>>), Str(SomeBytes)}
Payloads ==
    {[tx_type |-> TX_STANDARD, to |-> to, code |-> None, target |-> None,
      fn |-> None, args |-> None] : to \in {None, Str(RecipientHex)}}
    \cup
    {[tx_type |-> TX_CONTRACT_DEPLOY, to |-> None, code |-> code,
      target |-> None, fn |-> None, args |-> None] : code \in OptBytes}
    \cup
    {[tx_type |-> TX_CONTRACT_CALL, to |-> None, code |-> None,
      target |-> Str(ContractHex), fn |-> Str(FunctionNameStr),
      args |-> args] : args \in OptBytes}

(* the keyword arguments every caller leaves at their defaults or sets  *)
(* from the kind-specific arguments p                                      *)
BaseArgs(p) ==
    [ tx_id_hex |-> None, timestamp |-> 1, amount |-> 1, fee |-> 0,
      tx_type |-> p.tx_type, to_address_hex |-> p.to,
      contract_code_bytes |-> p.code,
      target_contract_address_hex |-> p.target, function_name |-> p.fn,
      arguments_bytes |-> p.args, signature_hex |-> None, signers |-> <<>> ]

(* create_transaction_cmd / did_register_document_cmd / direct use: an    *)
(* unsigned single-signer transaction of the holder of key 1               *)
NewSingle(p, public_key_hex) ==
    Transaction(BaseArgs(p) @@
      [ from_address_hex |-> Str(get_public_key_bytes(1)),
        public_key_hex |-> public_key_hex,
        required_signatures |-> 0,
        authorized_public_keys_hex |-> <<>> ])

(* multisig_initiate_tx_cmd / direct use: an unsigned multi-sig           *)
(* transaction sent from the derived multi-sig address                     *)
NewMultiSig(p, m, auth) ==
    LET derived == derive_multisig_address(m, sorted_list_set(auth))
    IN  Transaction(BaseArgs(p) @@
          [ from_address_hex |-> IF derived.ok THEN Str(derived.address)
                                 ELSE Str(get_public_key_bytes(1)),
            public_key_hex |-> None,
            required_signatures |-> m,
            authorized_public_keys_hex |-> auth ])

Constructed(t) ==
    /\ tx = t
    /\ file = NoFile
    /\ last = Op("construct", NoWallet, "ok", FALSE, "")
    /\ edits = 0
    /\ config_file = NoFile
    /\ ret = NoCall
    /\ sess = NoSessions

Init ==
    \E p \in Payloads :
       \/ \E pk \in {None, Str(get_public_key_bytes(1))} :
             Constructed(NewSingle(p, pk))
       \/ \E m \in 1..MaxM, auth \in AuthLists :
             Constructed(NewMultiSig(p, m, auth))

(* the transactions the command line builds: a single-signer transaction *)
(* with every field of its kind given, or a standard multi-sig transfer   *)
(* whose authorized keys come sorted from a multi-sig config (of all keys *)
(* but the last, which stays an outsider) with the threshold MaxM          *)
CliPayloads ==
    {p \in Payloads : /\ p.tx_type = TX_STANDARD => p.to # None
                      /\ p.tx_type = TX_CONTRACT_DEPLOY => Truthy(p.code)
                      /\ p.tx_type = TX_CONTRACT_CALL => Truthy(p.args)}

InitCli ==
    \E p \in CliPayloads :
       \/ Constructed(NewSingle(p, Str(get_public_key_bytes(1))))
       \/ /\ p.tx_type = TX_STANDARD
          /\ Constructed(NewMultiSig(p, MaxM, SortedSet(
                 {get_public_key_bytes(k) : k \in Keys \ {NumKeys}})))

(* multisig_initiate_tx_cmd after construction: fix the id, write the file *)
Initiate ==
    /\ last.op = "construct"
    /\ tx.required_signatures > 0
    /\ tx' = [tx EXCEPT !.id_hex = Str(calculate_hash(tx))]
    /\ file' = <<to_dict_for_file(tx')>>
    /\ last' = Op("initiate", NoWallet, "ok", FALSE, "")
    /\ UNCHANGED <<edits, cfgvars, sess>>

SignSingle(w) ==
    LET r == sign_single(tx, w)
    IN  /\ tx' = r.tx
        /\ last' = Op("sign_single", w, r.outcome, FALSE, "")
        /\ UNCHANGED <<file, edits, cfgvars, sess>>

(* tx.add_signature(wallet); the result recorded is whether a signature  *)
(* was appended (len(tx.signers) > original_signer_count)                  *)
AddSignature(w) ==
    LET r == add_signature(tx, w)
    IN  /\ tx' = r.tx
        /\ last' = Op("add_signature", w, r.outcome,
                      Len(r.tx.signers) > Len(tx.signers), "")
        /\ UNCHANGED <<file, edits, cfgvars, sess>>

(* faulty variant: the output file is opened for writing before the      *)
(* signature is added, so a failed session leaves it empty                 *)
SignTxCmd_truncating(w) ==
    /\ file # NoFile
    /\ LET loaded == from_dict_for_file(file[1])
           r == add_signature(loaded, w)
       IN  /\ tx' = r.tx
           /\ file' = IF r.outcome = "ok" THEN <<to_dict_for_file(r.tx)>>
                      ELSE NoFile
           /\ last' = Op("sign_tx", w, r.outcome,
                         Len(r.tx.signers) > Len(loaded.signers), "")
    /\ UNCHANGED <<edits, cfgvars, sess>>

(* multisig_sign_tx_cmd, one whole session: load the record, add the     *)
(* signature, write the record back; an exception skips the write          *)
SignTxCmd(w) ==
    /\ file # NoFile
    /\ LET loaded == from_dict_for_file(file[1])
           r == add_signature(loaded, w)
       IN  /\ tx' = r.tx
           /\ file' = IF r.outcome = "ok" THEN <<to_dict_for_file(r.tx)>>
                      ELSE file
           /\ last' = Op("sign_tx", w, r.outcome,
                         Len(r.tx.signers) > Len(loaded.signers), "")
    /\ UNCHANGED <<edits, cfgvars, sess>>

Verify ==
    /\ last' = Op("verify", NoWallet, "ok", verify_signatures_python(tx), "")
    /\ UNCHANGED <<tx, file, edits, cfgvars, sess>>

(* multisig_sign_tx_cmd after add_signature has returned:               *)
(* json.dump(tx.to_dict_for_file(), f); an exception skips the write      *)
Save ==
    /\ last.op = "add_signature" /\ last.outcome = "ok"
    /\ file' = <<to_dict_for_file(tx)>>
    /\ last' = Op("save", NoWallet, "ok", FALSE, "")
    /\ UNCHANGED <<tx, edits, cfgvars, sess>>

(* Transaction.from_dict_for_file(json.load(f)) in a new session *)
Load ==
    /\ file # NoFile
    /\ tx' = from_dict_for_file(file[1])
    /\ last' = Op("load", NoWallet, "ok", FALSE, "")
    /\ UNCHANGED <<file, edits, cfgvars, sess>>

(* Direct assignment to an attribute of the Transaction object, as the    *)
(* tests do with tx.amount = 200.                                          *)
Fields ==
    {"amount", "fee", "timestamp", "to_address_hex", "from_address_hex",
     "tx_type", "contract_code_bytes", "target_contract_address_hex",
     "function_name", "arguments_bytes", "public_key_hex",
     "required_signatures", "authorized_public_keys_hex", "id_hex"}

FieldValues(t, f) ==
    CASE f = "amount" -> {1, 2}
      [] f = "fee" -> {0, 1}
      [] f = "timestamp" -> {1, 2}
      [] f = "to_address_hex" ->
             {None, Str(RecipientHex), Str(OtherRecipientHex)}
      [] f = "from_address_hex" ->
             {Str(get_public_key_bytes(1)), Str(get_public_key_bytes(2))}
      [] f = "tx_type" -> {TX_STANDARD, TX_CONTRACT_DEPLOY, TX_CONTRACT_CALL}
      [] f = "contract_code_bytes" -> OptBytes
      [] f = "target_contract_address_hex" -> {None, Str(ContractHex)}
      [] f = "function_name" -> {None, Str(FunctionNameStr)}
      [] f = "arguments_bytes" -> OptBytes
      [] f = "public_key_hex" ->
             {None, Str(get_public_key_bytes(1)), Str(get_public_key_bytes(2))}
      [] f = "required_signatures" -> 0..MaxM
      [] f = "authorized_public_keys_hex" ->
             {SortedSet(S) : S \in SUBSET KeyHexes}
      [] f = "id_hex" ->
             {None, Str(calculate_hash(t)),
              Str(calculate_hash([t EXCEPT !.amount = 3 - t.amount]))}

SetField(f, v) ==
    /\ edits < MaxEdits
    /\ v # tx[f]
    /\ tx' = [tx EXCEPT ![f] = v]
    /\ last' = Op("set_field", NoWallet, "ok", FALSE, f)
    /\ edits' = edits + 1
    /\ UNCHANGED <<file, cfgvars, sess>>

----------------------------------------------------------------------------
(* Specifications *)

(* construction, initiation, signing, verification and the record only *)
NextProtocol ==
    \/ Initiate
    \/ \E w \in Wallets : SignSingle(w)
    \/ \E w \in Wallets : AddSignature(w)
    \/ Verify
    \/ Save
    \/ Load

SpecProtocol == Init /\ [][NextProtocol]_vars

(* the multi-sig workflow of the command line: initiate-tx, then sign-tx *)
(* sessions one after the other, each loading and rewriting the record     *)
NextSessions ==
    \/ Initiate
    \/ \E w \in Wallets : SignTxCmd(w)
    \/ Verify

SpecSessions == Init /\ [][NextSessions]_vars

(* one session on the object in memory, with fields changed behind the  *)
(* protocol's back                                                         *)
Next ==
    \/ Initiate
    \/ \E w \in Wallets : SignSingle(w)
    \/ \E w \in Wallets : AddSignature(w)
    \/ Verify
    \/ \E f \in Fields : \E v \in FieldValues(tx, f) : SetField(f, v)

Spec == InitCli /\ [][Next]_vars

----------------------------------------------------------------------------
(* The multi-sig configuration: the config file (config_file) and the     *)
(* last call into multisig.py with its arguments and its result (ret).    *)

(* key strings a caller may pass: the hex of every key, key 1 spelled in  *)
(* upper case, and strings that are no uncompressed public key             *)
Malformed == {<<4>>, <<2, 1>>, <<4, NotHex>>}
KeyStrings == KeyHexes \cup {upper(get_public_key_bytes(1))} \cup Malformed

Call(fn, m, keys, wallets, n_passwords, outcome, address, config) ==
    [fn |-> fn, m |-> m, keys |-> keys, wallets |-> wallets,
     n_passwords |-> n_passwords,
     outcome |-> outcome, address |-> address, config |-> config]

InitConfig ==
    Constructed(NewSingle(CHOOSE p \in CliPayloads : TRUE, None))

(* a direct call of derive_multisig_address, first thing in a run *)
Derive ==
    /\ config_file = NoFile
    /\ ret = NoCall
    /\ \E m \in 0..(MaxM + 1), keys \in ListsUpTo(KeyStrings, NumKeys) :
          LET r == derive_multisig_address(m, keys)
          IN  ret' = Call("derive", m, keys, <<>>, 0,
                          IF r.ok THEN "ok" ELSE "error", r.address, <<>>)
    /\ UNCHANGED <<tx, file, last, edits, config_file, sess>>

(* main.py create-multisig-config: the config file is written when        *)
(* create_multisig_config returns                                          *)
CreateConfig ==
    /\ config_file = NoFile
    /\ ret = NoCall
    /\ \E m \in 0..(MaxM + 1), wallets \in ListsUpTo(Wallets, NumKeys) :
          \E n_passwords \in {Len(wallets), Len(wallets) + 1} :
             LET r == create_multisig_config(m, wallets, n_passwords)
             IN  /\ config_file' = IF r.ok THEN r.config_data ELSE config_file
                 /\ ret' = Call("create", m, <<>>, wallets, n_passwords,
                                 IF r.ok THEN "ok" ELSE "error", <<>>,
                                 r.config_data)
    /\ UNCHANGED <<tx, file, last, edits, sess>>

(* the config file is a JSON file anyone can edit: the threshold, the     *)
(* key count or the identifier replaced, a key added, removed or          *)
(* replaced, two neighbouring keys swapped                                 *)
RemoveAt(l, i) == SubSeq(l, 1, i - 1) \o SubSeq(l, i + 1, Len(l))

EditedConfigs(c) ==
    LET keys == c.authorized_public_keys_hex
        rederived == derive_multisig_address(c.m_required, keys)
    IN  ( {[c EXCEPT !.m_required = m] : m \in 0..(MaxM + 1)}
          \cup {[c EXCEPT !.n_total_keys = n] : n \in 0..(NumKeys + 1)}
          \cup {[c EXCEPT !.multisig_address_hex = a] :
                   a \in {sha256_hex(<<>>)} \cup
                        (IF rederived.ok THEN {rederived.address} ELSE {})}
          \cup {[c EXCEPT !.authorized_public_keys_hex = Append(keys, k)] :
                   k \in KeyStrings}
          \cup {[c EXCEPT !.authorized_public_keys_hex = RemoveAt(keys, i)] :
                   i \in 1..Len(keys)}
          \cup {[c EXCEPT !.authorized_public_keys_hex = [keys EXCEPT ![i] = k]] :
                   i \in 1..Len(keys), k \in KeyStrings}
          \cup {[c EXCEPT !.authorized_public_keys_hex =
                            [keys EXCEPT ![i] = keys[i + 1], ![i + 1] = keys[i]]] :
                   i \in 1..(Len(keys) - 1)} ) \ {c}

EditConfig ==
    /\ config_file # NoFile
    /\ edits < MaxEdits
    /\ \E c \in EditedConfigs(config_file[1]) : config_file' = <<c>>
    /\ edits' = edits + 1
    /\ ret' = Call("edit", 0, <<>>, <<>>, 0, "ok", <<>>, <<>>)
    /\ UNCHANGED <<tx, file, last, sess>>

(* load_multisig_config of the config file *)
LoadConfig ==
    LET r == load_multisig_config(config_file)
    IN  /\ ret' = Call("load", 0, <<>>, <<>>, 0, r.outcome, <<>>, r.config_data)
        /\ UNCHANGED <<tx, file, last, edits, config_file, sess>>

NextConfig ==
    \/ Derive
    \/ CreateConfig
    \/ EditConfig
    \/ LoadConfig

SpecConfig == InitConfig /\ [][NextConfig]_vars

----------------------------------------------------------------------------
(* The threshold verifier on a record that anyone may have written:       *)
(* from_dict_for_file takes the signers list as it finds it.               *)

MaxSigners == 3

(* the initiated multi-sig transfer of the command line with threshold m  *)
Initiated(m) ==
    LET t == NewMultiSig(CHOOSE p \in CliPayloads : p.tx_type = TX_STANDARD, m,
                         SortedSet({get_public_key_bytes(k) : k \in Keys \ {NumKeys}}))
    IN  [t EXCEPT !.id_hex = Str(calculate_hash(t))]

OtherKey(k) == IF k = 1 THEN 2 ELSE 1

(* the entries a record of t may carry: for every key its signature over  *)
(* the digest of t, its signature over another digest, and the signature  *)
(* of another key over the digest of t                                     *)
SignerEntries(t) ==
    LET h == calculate_hash(t)
        stale == calculate_hash([t EXCEPT !.amount = 3 - t.amount])
    IN  UNION {{SignerInfo(get_public_key_bytes(k), ecdsa_sign(k, h)),
                SignerInfo(get_public_key_bytes(k), ecdsa_sign(k, stale)),
                SignerInfo(get_public_key_bytes(k), ecdsa_sign(OtherKey(k), h))} :
               k \in Keys}

InitVerify ==
    \E m \in 1..MaxM :
       \E signers \in ListsUpTo(SignerEntries(Initiated(m)), MaxSigners) :
          LET record == [to_dict_for_file(Initiated(m)) EXCEPT
                            !.signers = [i \in 1..Len(signers) |->
                                            SignerInfo_to_dict(signers[i])]]
          IN  /\ tx = from_dict_for_file(record)
              /\ file = <<record>>
              /\ last = Op("load", NoWallet, "ok", FALSE, "")
              /\ edits = 0
              /\ config_file = NoFile
              /\ ret = NoCall
              /\ sess = NoSessions

NextVerify == Verify

SpecVerify == InitVerify /\ [][NextVerify]_vars

----------------------------------------------------------------------------
(* Concurrent sign-tx sessions on one pending record: every session is a  *)
(* process of its own that reads the file, adds its signature to its own  *)
(* object and writes the file, with nothing ordering the sessions.         *)

InitConcurrent ==
    \E m \in 1..MaxM :
       /\ tx = Initiated(m)
       /\ file = <<to_dict_for_file(Initiated(m))>>
       /\ last = Op("initiate", NoWallet, "ok", FALSE, "")
       /\ edits = 0
       /\ config_file = NoFile
       /\ ret = NoCall
       /\ sess = NoSessions

(* json.load(f); Transaction.from_dict_for_file(tx_data); every session  *)
(* is one run of the command                                               *)
SessionLoad(s, w) ==
    /\ sess[s].pc = "idle"
    /\ sess' = [sess EXCEPT ![s] =
                   [pc |-> "loaded", wallet |-> w, loaded |-> file,
                    tx |-> <<from_dict_for_file(file[1])>>]]
    /\ last' = Op("session_load", w, "ok", FALSE, "")
    /\ UNCHANGED <<tx, file, edits, cfgvars>>

(* tx.add_signature(signer_wallet_pem, password); an exception ends the   *)
(* session without a write                                                 *)
SessionAddSignature(s) ==
    /\ sess[s].pc = "loaded"
    /\ LET r == add_signature(sess[s].tx[1], sess[s].wallet)
       IN  /\ sess' = [sess EXCEPT ![s].tx = <<r.tx>>,
                                   ![s].pc = IF r.outcome = "ok" THEN "signed"
                                             ELSE "done"]
           /\ last' = Op("session_add_signature", sess[s].wallet, r.outcome,
                         Len(r.tx.signers) > Len(sess[s].tx[1].signers), "")
    /\ UNCHANGED <<tx, file, edits, cfgvars>>

(* faulty variant: the session merges its signers into the record that is *)
(* in the file when it writes                                              *)
SessionSave_merging(s) ==
    /\ sess[s].pc = "signed"
    /\ LET current == from_dict_for_file(file[1])
           mine == sess[s].tx[1]
           merged == [mine EXCEPT !.signers = sort_signers(
                         mine.signers \o
                         SelectSeq(current.signers,
                                   LAMBDA x : x \notin Range(mine.signers)))]
       IN  file' = <<to_dict_for_file(merged)>>
    /\ sess' = [sess EXCEPT ![s].pc = "done"]
    /\ last' = Op("session_save", sess[s].wallet, "ok", FALSE, "")
    /\ UNCHANGED <<tx, edits, cfgvars>>

(* json.dump(tx.to_dict_for_file(), f) *)
SessionSave(s) ==
    /\ sess[s].pc = "signed"
    /\ file' = <<to_dict_for_file(sess[s].tx[1])>>
    /\ sess' = [sess EXCEPT ![s].pc = "done"]
    /\ last' = Op("session_save", sess[s].wallet, "ok", FALSE, "")
    /\ UNCHANGED <<tx, edits, cfgvars>>

NextConcurrent ==
    \/ \E s \in Sessions, w \in Wallets : SessionLoad(s, w)
    \/ \E s \in Sessions : SessionAddSignature(s)
    \/ \E s \in Sessions : SessionSave(s)

SpecConcurrent == InitConcurrent /\ [][NextConcurrent]_vars

----------------------------------------------------------------------------
(* Submission to the node (client.py, and the commands that call it)      *)

(* tx.<name>: the value of the attribute, or an AttributeError when the   *)
(* object has no attribute of that name                                    *)
getattr(t, name) ==
    IF name \in DOMAIN t THEN [ok |-> TRUE, value |-> t[name]]
    ELSE [ok |-> FALSE, value |-> None]

(* client.send_transaction: the test                                      *)
(* "not tx.id or not tx.signature or not tx.public_key" reads the three   *)
(* attributes from left to right and stops at the first that is empty;    *)
(* then the payload is posted and the node accepts it or not               *)
send_transaction(t, node_accepts) ==
    LET id == getattr(t, "id")
        signature == getattr(t, "signature")
        public_key == getattr(t, "public_key")
    IN  IF ~id.ok THEN "attribute_error"
        ELSE IF ~Truthy(id.value) THEN "value_error"
        ELSE IF ~signature.ok THEN "attribute_error"
        ELSE IF ~Truthy(signature.value) THEN "value_error"
        ELSE IF ~public_key.ok THEN "attribute_error"
        ELSE IF ~Truthy(public_key.value) THEN "value_error"
        ELSE IF node_accepts THEN "submitted" ELSE "failed"

(* how a command ends in which send_transaction was called *)
SendCalled == {"attribute_error", "value_error", "submitted", "failed"}

(* main.py create-transaction: build, sign_single, send_transaction; the  *)
(* exceptions are caught and reported                                      *)
CreateTransactionCmd(w, to, node_accepts) ==
    LET loaded == load_private_key(w)
        sender_pub_key_hex == get_public_key_bytes(loaded.key)
        created == Transaction(
            [ tx_id_hex |-> None, timestamp |-> 1, amount |-> 1, fee |-> 0,
              tx_type |-> TX_STANDARD, to_address_hex |-> Str(to),
              contract_code_bytes |-> None,
              target_contract_address_hex |-> None, function_name |-> None,
              arguments_bytes |-> None, signature_hex |-> None,
              signers |-> <<>>,
              from_address_hex |-> Str(sender_pub_key_hex),
              public_key_hex |-> Str(sender_pub_key_hex),
              required_signatures |-> 0,
              authorized_public_keys_hex |-> <<>> ])
        r == sign_single(created, w)
    IN  /\ IF ~loaded.ok
           THEN /\ last' = Op("create_transaction", w, "load_error", FALSE, "")
                /\ UNCHANGED tx
           ELSE IF r.outcome # "ok"
           THEN /\ last' = Op("create_transaction", w, r.outcome, FALSE, "")
                /\ tx' = r.tx
           ELSE /\ last' = Op("create_transaction", w,
                              send_transaction(r.tx, node_accepts), FALSE, "")
                /\ tx' = r.tx
        /\ UNCHANGED <<file, edits, cfgvars, sess>>

(* main.py multisig broadcast-tx: load the record, warn and ask when      *)
(* fewer than M signers are collected, send_transaction                    *)
BroadcastTxCmd(confirm, node_accepts) ==
    /\ file # NoFile
    /\ tx' = from_dict_for_file(file[1])
    /\ last' = IF Len(tx'.signers) < tx'.required_signatures /\ ~confirm
               THEN Op("broadcast_tx", NoWallet, "cancelled", FALSE, "")
               ELSE Op("broadcast_tx", NoWallet,
                       send_transaction(tx', node_accepts), FALSE, "")
    /\ UNCHANGED <<file, edits, cfgvars, sess>>

NextSubmit ==
    \/ Initiate
    \/ \E w \in Wallets : SignTxCmd(w)
    \/ \E w \in Wallets, to \in {RecipientHex, OtherRecipientHex} :
          \E node_accepts \in BOOLEAN : CreateTransactionCmd(w, to, node_accepts)
    \/ \E confirm \in BOOLEAN, node_accepts \in BOOLEAN :
          BroadcastTxCmd(confirm, node_accepts)

SpecSubmit == Init /\ [][NextSubmit]_vars

----------------------------------------------------------------------------
(* Properties *)

IsGroup(t) == t.required_signatures > 0

(* C1: whenever add_signature returns successfully on a transaction whose *)
(* id was already set, the id is what it was before the call and          *)
(* calculate_hash() of the transaction returns that id.                    *)
C1_IdFixedAndEqualToHash ==
    [][(/\ last'.op = "add_signature"
        /\ last'.outcome = "ok"
        /\ tx.id_hex # None)
       => (/\ tx'.id_hex = tx.id_hex
           /\ Str(calculate_hash(tx')) = tx'.id_hex)]_vars

(* C2: in the sign-tx workflow a multi-sig transaction verifies exactly   *)
(* when its number of collected signers has reached the threshold M, in   *)
(* the session that signed and in the record it wrote; and each sign-tx   *)
(* session of an authorized key that has not signed yet, on an unchanged  *)
(* record, adds exactly one signer.                                        *)
ThresholdReached(t) == Len(t.signers) >= t.required_signatures

C2_VerifyIffThreshold ==
    /\ IsGroup(tx) => (verify_signatures_python(tx) <=> ThresholdReached(tx))
    /\ (file # NoFile /\ IsGroup(tx)) =>
          LET reloaded == from_dict_for_file(file[1])
          IN  verify_signatures_python(reloaded) <=> ThresholdReached(reloaded)
    /\ (last.op = "sign_tx" /\ last.outcome = "ok") =>
          /\ file = <<to_dict_for_file(tx)>>
          /\ already_signed(tx, get_public_key_bytes(last.wallet))

(* C2 witness: the 2-of-3 transaction after its second sign-tx session *)
C2_Witness ==
    /\ last.op = "sign_tx" /\ last.outcome = "ok" /\ last.result
    /\ tx.required_signatures = 2
    /\ Len(tx.authorized_public_keys_hex) = 3
    /\ Len(tx.signers) = 2
    /\ verify_signatures_python(tx)

(* C3 as stated: sign_single leaves a transaction that verifies, and     *)
(* changing amount, recipient or fee of the freshly signed transaction to *)
(* a different value makes verify fail.                                    *)
FreshlySigned == last.op = "sign_single" /\ last.outcome = "ok"

C3_AnyCoreFieldBreaksVerify ==
    [][/\ FreshlySigned' => verify_signatures_python(tx')
       /\ (/\ FreshlySigned
           /\ last'.op = "set_field"
           /\ last'.field \in {"amount", "to_address_hex", "fee"})
          => ~verify_signatures_python(tx')]_vars

(* C3 amended: sign_single leaves a transaction that verifies; changing   *)
(* amount or fee, or the recipient of a standard transaction, makes       *)
(* verify fail; the recipient of a contract deployment or contract call   *)
(* is not hashed and changing it leaves verify true.                       *)
C3_HashedCoreFieldBreaksVerify ==
    [][/\ FreshlySigned' => verify_signatures_python(tx')
       /\ (/\ FreshlySigned
           /\ last'.op = "set_field"
           /\ \/ last'.field \in {"amount", "fee"}
              \/ last'.field = "to_address_hex" /\ tx.tx_type = TX_STANDARD)
          => ~verify_signatures_python(tx')
       /\ (/\ FreshlySigned
           /\ last'.op = "set_field"
           /\ last'.field = "to_address_hex" /\ tx.tx_type # TX_STANDARD)
          => verify_signatures_python(tx')]_vars

(* C3 witness: a signed standard transfer whose recipient was replaced *)
C3_Witness ==
    /\ last.op = "set_field" /\ last.field = "to_address_hex"
    /\ tx.tx_type = TX_STANDARD
    /\ tx.required_signatures = 0
    /\ tx.signature_hex # None
    /\ tx.to_address_hex = Str(OtherRecipientHex)
    /\ ~verify_signatures_python(tx)

(* C4: add_signature by an authorized key that has not signed, on a       *)
(* multi-sig transaction whose stored id is not the digest of its content,*)
(* raises the content-mismatch error and leaves signers and id alone;     *)
(* with no id stored it sets the id to the digest.  And a change of fee,  *)
(* sender, timestamp, kind, a field of the kind, M or the authorized keys *)
(* makes a stored id that was the digest differ from the digest.           *)
KindFields(tx_type) ==
    CASE tx_type = TX_STANDARD -> {"to_address_hex", "amount"}
      [] tx_type = TX_CONTRACT_DEPLOY -> {"contract_code_bytes", "amount"}
      [] tx_type = TX_CONTRACT_CALL ->
             {"target_contract_address_hex", "function_name",
              "arguments_bytes", "amount"}

ContentFields(tx_type) ==
    {"fee", "from_address_hex", "timestamp", "tx_type", "required_signatures",
     "authorized_public_keys_hex"} \cup KindFields(tx_type)

FreshAuthorizedCall ==
    /\ last'.op = "add_signature"
    /\ tx.required_signatures > 0
    /\ last'.wallet \in Keys
    /\ \E i \in 1..Len(tx.authorized_public_keys_hex) :
          tx.authorized_public_keys_hex[i] = get_public_key_bytes(last'.wallet)
    /\ \A i \in 1..Len(tx.signers) :
          tx.signers[i].public_key_hex # get_public_key_bytes(last'.wallet)

C4_ContentMismatchRejected ==
    [][/\ (FreshAuthorizedCall /\ tx.id_hex # None
             /\ tx.id_hex # Str(calculate_hash(tx)))
          => (/\ last'.outcome = "content_mismatch"
              /\ tx'.signers = tx.signers
              /\ tx'.id_hex = tx.id_hex)
       /\ (FreshAuthorizedCall /\ tx.id_hex = None)
          => (/\ last'.outcome = "ok"
              /\ tx'.id_hex = Str(calculate_hash(tx)))
       /\ (/\ last'.op = "set_field"
           /\ tx.required_signatures > 0
           /\ Len(tx.authorized_public_keys_hex) > 0
           /\ tx.id_hex = Str(calculate_hash(tx))
           /\ last'.field \in ContentFields(tx.tx_type))
          => tx'.id_hex # Str(calculate_hash(tx'))]_vars

(* C4 witness: a signature refused after a field was changed, with the   *)
(* first signer's entry still in place                                     *)
C4_Witness ==
    /\ last.op = "add_signature" /\ last.outcome = "content_mismatch"
    /\ edits = 1
    /\ Len(tx.signers) = 1
    /\ tx.id_hex # Str(calculate_hash(tx))

(* C5: add_signature with a key that is not in the authorized list of a  *)
(* multi-sig transaction raises the unauthorized-signer error and leaves  *)
(* the transaction, signers and id included, as it was.                    *)
C5_UnauthorizedRejected ==
    [][(/\ last'.op = "add_signature"
        /\ tx.required_signatures > 0
        /\ Len(tx.authorized_public_keys_hex) > 0
        /\ last'.wallet \in Keys
        /\ \A i \in 1..Len(tx.authorized_public_keys_hex) :
              tx.authorized_public_keys_hex[i]
                  # get_public_key_bytes(last'.wallet))
       => (/\ last'.outcome = "unauthorized"
           /\ tx'.signers = tx.signers
           /\ tx'.id_hex = tx.id_hex
           /\ tx' = tx)]_vars

(* C5 witness: an outsider refused on a transaction that has a signer *)
C5_Witness ==
    /\ last.op = "add_signature" /\ last.outcome = "unauthorized"
    /\ Len(tx.signers) >= 1
    /\ tx.id_hex # None

(* C6: add_signature with a key that already has an entry in signers     *)
(* returns successfully and leaves signers unchanged.                      *)
C6_ResigningIsNoOp ==
    [][(/\ last'.op = "add_signature"
        /\ last'.wallet \in Keys
        /\ \E i \in 1..Len(tx.signers) :
              tx.signers[i].public_key_hex = get_public_key_bytes(last'.wallet))
       => (/\ last'.outcome = "ok"
           /\ tx'.signers = tx.signers)]_vars

(* C6 witness: a repeated add_signature that appended nothing *)
C6_Witness ==
    /\ last.op = "add_signature" /\ last.outcome = "ok" /\ ~last.result
    /\ Len(tx.signers) = 2
    /\ \E i \in 1..2 :
          tx.signers[i].public_key_hex = get_public_key_bytes(last.wallet)

(* C7: the signers of a multi-sig transaction, in memory and in the      *)
(* record, have authorized keys, no key twice, and ascending keys.         *)
SignersWellFormed(keys, authorized) ==
    /\ \A i \in 1..Len(keys) : keys[i] \in Range(authorized)
    /\ \A i, j \in 1..Len(keys) : i < j => StrLess(keys[i], keys[j])

MaxCalls == 3

(* add_signature called for each wallet of the list in turn; a call that *)
(* raises leaves the transaction as it was                                 *)
RECURSIVE add_signatures(_, _)
add_signatures(t, ws) ==
    IF ws = <<>> THEN t
    ELSE add_signatures(add_signature(t, Head(ws)).tx, Tail(ws))

AuthorizedWallets(t) ==
    {k \in Keys : get_public_key_bytes(k) \in Range(t.authorized_public_keys_hex)}

C8_OrderIndependentMerge ==
    (IsGroup(tx) /\ last.op \in {"construct", "initiate", "load"}) =>
        \A S \in SUBSET AuthorizedWallets(tx) :
            LET orders == {s \in ListsUpTo(S, MaxCalls) : Range(s) = S}
            IN  \A s1 \in orders :
                   LET r1 == add_signatures(tx, s1)
                       r2 == add_signatures(tx, CHOOSE s2 \in orders : TRUE)
                   IN  /\ SignerKeys(r1) = SignerKeys(r2)
                       /\ r1.id_hex = r2.id_hex

(* C8 witness: a signature appended last that sorts before an earlier one *)
C8_Witness ==
    /\ last.op = "add_signature" /\ last.outcome = "ok" /\ last.result
    /\ Len(tx.signers) = 2
    /\ tx.signers[1].public_key_hex = get_public_key_bytes(last.wallet)

(* C9: verify gives the same result whatever id is stored: unset, the    *)
(* digest of the content, or the digest of another content.                *)
StoredIds(t) ==
    {None, Str(calculate_hash(t)),
     Str(calculate_hash([t EXCEPT !.amount = 3 - t.amount]))}

C9_VerifyIgnoresStoredId ==
    \A id \in StoredIds(tx) :
        verify_signatures_python([tx EXCEPT !.id_hex = id])
            = verify_signatures_python(tx)

(* C9 witness: a transaction with a wrong or missing id that verifies *)
C9_Witness ==
    /\ last.op = "verify" /\ last.result
    /\ tx.id_hex # Str(calculate_hash(tx))

(* C10: after a successful sign_single the public key and the sender are *)
(* the signer's public key, the id is the digest of the content as it is  *)
(* now, and the signature is the signer's signature over that digest.      *)
C10_SignSinglePostcondition ==
    (last.op = "sign_single" /\ last.outcome = "ok") =>
        LET pk == get_public_key_bytes(last.wallet) IN
        /\ tx.public_key_hex = Str(pk)
        /\ tx.from_address_hex = Str(pk)
        /\ tx.id_hex = Str(calculate_hash(tx))
        /\ tx.signature_hex # None
        /\ tx.signature_hex[1].signer = pk
        /\ tx.signature_hex[1].msg = calculate_hash(tx)
        /\ ecdsa_verify(pk, tx.signature_hex[1], tx.id_hex[1])

(* C10 witness: key 2 signed the transaction built for the holder of     *)
(* key 1, and the sender was overwritten                                   *)
C10_Witness ==
    /\ last.op = "sign_single" /\ last.outcome = "ok"
    /\ last.wallet = 2
    /\ tx.from_address_hex = Str(get_public_key_bytes(2))

(* C11: on no transaction can both sign_single and add_signature succeed; *)
(* sign_single on a transaction with M > 0 and add_signature on one with  *)
(* M = 0 end with the mode error, whatever the wallet (also one that       *)
(* cannot be loaded), and leave the transaction as it was.                 *)
C11_ModeExclusive ==
    [][/\ \A w1, w2 \in Wallets :
             ~(/\ sign_single(tx, w1).outcome = "ok"
               /\ add_signature(tx, w2).outcome = "ok")
       /\ (last'.op = "sign_single" /\ tx.required_signatures > 0)
             => (last'.outcome = "mode_error" /\ tx' = tx)
       /\ (last'.op = "add_signature" /\ tx.required_signatures = 0)
             => (last'.outcome = "mode_error" /\ tx' = tx)]_vars

(* C11 witness: add_signature with an unreadable wallet refused for its   *)
(* mode on a transaction that sign_single has signed                       *)
C11_Witness ==
    /\ last.op = "add_signature" /\ last.outcome = "mode_error"
    /\ last.wallet = NoWallet
    /\ tx.required_signatures = 0
    /\ tx.signature_hex # None

(* C12: hashing, signing and verification classify every transaction     *)
(* into the same mode, and no operation changes the mode of a             *)
(* transaction.  The mode each piece of code sees: sign_single refuses a  *)
(* group transaction, add_signature refuses all others, verify takes the  *)
(* multi-sig branch, the hashed payload carries the multi-sig entries.     *)
GroupForSignSingle(t) == sign_single(t, NoWallet).outcome = "mode_error"
GroupForAddSignature(t) == add_signature(t, NoWallet).outcome # "mode_error"
GroupForVerify(t) == verify_signatures_python(t) = verify_multisig(t, calculate_hash(t))
GroupForHashing(t) == payload_to_hash(t).RequiredSignatures # Absent

C12_OneModeForLife ==
    [][/\ GroupForSignSingle(tx) = GroupForAddSignature(tx)
       /\ GroupForHashing(tx) = GroupForAddSignature(tx)
       /\ GroupForSignSingle(tx) => GroupForVerify(tx)
       /\ GroupForSignSingle(tx') = GroupForSignSingle(tx)
       /\ GroupForAddSignature(tx') = GroupForAddSignature(tx)
       /\ GroupForHashing(tx') = GroupForHashing(tx)]_vars

(* C13: every group-mode transaction that construction or loading yields *)
(* has authorized keys without repeats in ascending order, at least one   *)
(* of them, and a threshold between 1 and their number.                    *)
ValidGroupParameters(t) ==
    /\ \A i, j \in 1..Len(t.authorized_public_keys_hex) :
           i < j => StrLess(t.authorized_public_keys_hex[i],
                            t.authorized_public_keys_hex[j])
    /\ Len(t.authorized_public_keys_hex) >= 1
    /\ 1 <= t.required_signatures
    /\ t.required_signatures <= Len(t.authorized_public_keys_hex)

C13_GroupParametersValidated ==
    /\ IsGroup(tx) => ValidGroupParameters(tx)
    /\ file # NoFile =>
          LET reloaded == from_dict_for_file(file[1])
          IN  IsGroup(reloaded) => ValidGroupParameters(reloaded)

Count(l, x) == Cardinality({i \in 1..Len(l) : l[i] = x})

Reorderings(l) ==
    {p \in ListsUpTo(Range(l), Len(l)) :
        Len(p) = Len(l) /\ \A x \in Range(l) : Count(p, x) = Count(l, x)}

(* C14: derive_multisig_address(M, keys) gives the same result - the same *)
(* identifier, or an error - for every permutation of the list of keys.   *)
C14_DerivePermutationInvariant ==
    ret.fn = "derive" =>
        \A p \in Reorderings(ret.keys) :
            LET r == derive_multisig_address(ret.m, p)
            IN  /\ r.ok = (ret.outcome = "ok")
                /\ r.address = ret.address

(* an identifier was derived from three keys given in descending order *)
C14_Witness ==
    /\ ret.fn = "derive" /\ ret.outcome = "ok"
    /\ Len(ret.keys) = NumKeys
    /\ \A i \in 1..(Len(ret.keys) - 1) : StrLess(ret.keys[i + 1], ret.keys[i])
    /\ Cardinality(Reorderings(ret.keys)) > 2

(* the keys a list of hex strings names: the bytes of each string *)
KeyBytes(keys) == {fromhex(keys[i]).bytes : i \in 1..Len(keys)}

KeySets == {S \in SUBSET KeyStrings : Cardinality(S) <= NumKeys}

(* C15: when derive_multisig_address returns an identifier, any other     *)
(* valid call that returns the same identifier has the same M and names   *)
(* the same set of keys.                                                   *)
C15_DeriveInjective ==
    (ret.fn = "derive" /\ ret.outcome = "ok") =>
        \A m \in 0..(MaxM + 1), S \in KeySets :
            LET other == derive_multisig_address(m, SortedSet(S))
            IN  (other.ok /\ other.address = ret.address) =>
                    (m = ret.m /\ KeyBytes(SortedSet(S)) = KeyBytes(ret.keys))

(* an identifier was derived for keys that admit another threshold and    *)
(* for which a key can be replaced by one not in the list                  *)
C15_Witness ==
    /\ ret.fn = "derive" /\ ret.outcome = "ok"
    /\ ret.m < Len(ret.keys)
    /\ \E S \in KeySets :
          /\ derive_multisig_address(ret.m, SortedSet(S)).ok
          /\ Cardinality(S \ Range(ret.keys)) = 1
          /\ Cardinality(Range(ret.keys) \ S) = 1
          /\ derive_multisig_address(ret.m, SortedSet(S)).address # ret.address

(* a hex string that names a 65-byte uncompressed point (here KeyHexLen   *)
(* units) with the leading marker 0x04                                     *)
IsUncompressedPoint(pubkey_hex) ==
    LET pubkey_bytes == fromhex(pubkey_hex)
    IN  /\ pubkey_bytes.ok
        /\ Len(pubkey_bytes.bytes) = KeyHexLen
        /\ pubkey_bytes.bytes[1] = 4

ValidDeriveInput(m, keys) ==
    /\ 1 <= m /\ m <= Len(keys)
    /\ Len(keys) >= 1
    /\ m <= MaxByte
    /\ \A i \in 1..Len(keys) : IsUncompressedPoint(keys[i])
    /\ Cardinality(KeyBytes(keys)) = Len(keys)

(* C16: derive_multisig_address(M, keys) returns an identifier exactly    *)
(* when 1 <= M <= |keys|, |keys| >= 1, M <= 255, the keys are unique and  *)
(* each is an uncompressed point with marker 0x04; otherwise it raises    *)
(* and returns no identifier.                                              *)
C16_DeriveValidates ==
    ret.fn = "derive" =>
        /\ (ret.outcome = "ok") = ValidDeriveInput(ret.m, ret.keys)
        /\ ret.outcome # "ok" => ret.address = <<>>

(* the stored identifier is not the one re-derived from the stored        *)
(* threshold and key list                                                  *)
StoredIdDiffers(c) ==
    LET r == derive_multisig_address(c.m_required, c.authorized_public_keys_hex)
    IN  ~r.ok \/ r.address # c.multisig_address_hex

ValueErrors == {"invalid_m_n", "n_mismatch", "derive_error", "address_mismatch"}

(* an edit of an accepted config file that changes the threshold, or adds *)
(* removes or replaces a key, and leaves the stored identifier as it was  *)
SilentEdit(f, g) ==
    /\ f # NoFile /\ g # f
    /\ load_multisig_config(f).outcome = "ok"
    /\ g[1].multisig_address_hex = f[1].multisig_address_hex
    /\ \/ g[1].m_required # f[1].m_required
       \/ Len(g[1].authorized_public_keys_hex) # Len(f[1].authorized_public_keys_hex)
       \/ KeyBytes(g[1].authorized_public_keys_hex) # KeyBytes(f[1].authorized_public_keys_hex)

(* C17: load_multisig_config raises a ValueError and returns no config    *)
(* whenever the stored identifier differs from the re-derived one; a      *)
(* config file whose threshold or keys were edited without updating the   *)
(* stored identifier is rejected.                                          *)
C17_EditedConfigRejected ==
    [][/\ (ret'.fn = "load" /\ config_file # NoFile /\ StoredIdDiffers(config_file[1]))
            => (ret'.outcome \in ValueErrors /\ ret'.config = <<>>)
       /\ SilentEdit(config_file, config_file')
            => /\ load_multisig_config(config_file').outcome \in ValueErrors
               /\ load_multisig_config(config_file').config_data = <<>>]_vars

(* a config whose threshold was edited (the stored identifier is the one  *)
(* of another threshold) was loaded and rejected by the re-derivation     *)
C17_Witness ==
    /\ ret.fn = "load" /\ ret.outcome = "address_mismatch"
    /\ edits > 0
    /\ \E m \in 1..(MaxM + 1) :
          LET r == derive_multisig_address(m, config_file[1].authorized_public_keys_hex)
          IN  /\ m # config_file[1].m_required
              /\ r.ok /\ r.address = config_file[1].multisig_address_hex

(* the arguments the claim is about: N distinct wallets that can be       *)
(* loaded, a password for each, and 1 <= M <= N                            *)
ValidCreateInput(m, wallets, n_passwords) ==
    /\ n_passwords = Len(wallets)
    /\ \A i \in 1..Len(wallets) : wallets[i] \in Keys
    /\ Cardinality(Range(wallets)) = Len(wallets)
    /\ 1 <= m /\ m <= Len(wallets)

StrictlyAscending(l) == \A i \in 1..(Len(l) - 1) : StrLess(l[i], l[i + 1])

(* C18: create_multisig_config writes a record for every M and N distinct *)
(* wallets with 1 <= M <= N, and load_multisig_config of that record      *)
(* returns the same M, the key count N, the wallets' keys in sorted order *)
(* and the identifier derive_multisig_address(M, keys).                    *)
C18_CreateLoadRoundTrip ==
    [][/\ (ret'.fn = "create" /\ ValidCreateInput(ret'.m, ret'.wallets, ret'.n_passwords))
            => (ret'.outcome = "ok" /\ config_file' = ret'.config /\ config_file' # NoFile)
       /\ (ret.fn = "create" /\ ret.outcome = "ok" /\ ret'.fn = "load")
            => /\ ret'.outcome = "ok"
               /\ ret'.config # <<>>
               /\ LET c == ret'.config[1]
                      keys == c.authorized_public_keys_hex
                  IN  /\ c.m_required = ret.m
                      /\ c.n_total_keys = Len(ret.wallets)
                      /\ Len(keys) = Len(ret.wallets)
                      /\ Range(keys) = {public_key_to_address(w) : w \in Range(ret.wallets)}
                      /\ StrictlyAscending(keys)
                      /\ derive_multisig_address(ret.m, keys).ok
                      /\ c.multisig_address_hex = derive_multisig_address(ret.m, keys).address]_vars

(* the record created for all wallets with the largest threshold was      *)
(* loaded as it was written                                                *)
C18_Witness ==
    /\ ret.fn = "load" /\ ret.outcome = "ok" /\ edits = 0
    /\ Len(ret.config[1].authorized_public_keys_hex) = NumKeys
    /\ ret.config[1].m_required = MaxM

(* C19: from_dict_for_file(to_dict_for_file(tx)) has the same id, the     *)
(* same canonical digest, the same threshold, authorized keys and signers *)
(* and the same verify result as tx, for every kind, mode and code or     *)
(* argument bytes.                                                         *)
C19_RoundTripLossless ==
    LET reloaded == from_dict_for_file(to_dict_for_file(tx))
    IN  /\ reloaded.id_hex = tx.id_hex
        /\ calculate_hash(reloaded) = calculate_hash(tx)
        /\ reloaded.required_signatures = tx.required_signatures
        /\ reloaded.authorized_public_keys_hex = tx.authorized_public_keys_hex
        /\ reloaded.signers = tx.signers
        /\ verify_signatures_python(reloaded) = verify_signatures_python(tx)

SignTxFailures == {"mode_error", "load_error", "unauthorized", "content_mismatch"}

(* C20: a sign-tx session writes the record only when add_signature       *)
(* returned; when add_signature raises (wrong mode, key not loaded,       *)
(* signer not authorized, content mismatch) the persisted record is       *)
(* exactly what it was before the session.                                 *)
C20_WriteOnlyAfterChecks ==
    [][last'.op = "sign_tx" =>
          /\ last'.outcome # "ok" =>
                (last'.outcome \in SignTxFailures /\ file' = file)
          /\ last'.outcome = "ok" =>
                /\ add_signature(from_dict_for_file(file[1]), last'.wallet).outcome = "ok"
                /\ file' = <<to_dict_for_file(tx')>>]_vars

(* a session of a signer who is not authorized failed on a record that    *)
(* already carries a signature, and the record is still there              *)
C20_Witness ==
    /\ last.op = "sign_tx" /\ last.outcome = "unauthorized"
    /\ file # NoFile
    /\ Len(from_dict_for_file(file[1]).signers) > 0

(* entry i of the collected signers is not authorized, repeats the key of *)
(* an earlier entry, or carries a signature that does not verify           *)
BadEntry(t, i) ==
    \/ t.signers[i].public_key_hex \notin Range(t.authorized_public_keys_hex)
    \/ \E j \in 1..(i - 1) : t.signers[j].public_key_hex = t.signers[i].public_key_hex
    \/ ~ecdsa_verify(t.signers[i].public_key_hex, t.signers[i].signature_hex,
                     calculate_hash(t))

(* C21: in group mode verify returns false when fewer than M signers are  *)
(* collected, and returns false when any collected entry is not           *)
(* authorized, repeats a key or carries an invalid signature, however     *)
(* many other entries are valid.                                           *)
C21_VerifyFailsOnAnyBadEntry ==
    (last.op = "verify" /\ IsGroup(tx)) =>
        /\ Len(tx.signers) < tx.required_signatures => ~last.result
        /\ (\E i \in 1..Len(tx.signers) : BadEntry(tx, i)) => ~last.result

(* verify returned false on a list with M good entries and one bad entry  *)
C21_Witness ==
    /\ last.op = "verify" /\ IsGroup(tx) /\ ~last.result
    /\ Len(tx.signers) > tx.required_signatures
    /\ Cardinality({i \in 1..Len(tx.signers) : ~BadEntry(tx, i)}) >= tx.required_signatures
    /\ Cardinality({i \in 1..Len(tx.signers) : BadEntry(tx, i)}) = 1

(* the distinct authorized keys that have a valid signature in the list *)
ValidAuthorizedKeys(t) ==
    {k \in Range(t.authorized_public_keys_hex) :
        \E i \in 1..Len(t.signers) :
           /\ t.signers[i].public_key_hex = k
           /\ ecdsa_verify(k, t.signers[i].signature_hex, calculate_hash(t))}

(* C22 as stated: in group mode verify succeeds if and only if the number *)
(* of distinct authorized keys with a valid signature in the list is at   *)
(* least M.                                                                *)
C22_VerifyIffEnoughValidKeys ==
    (last.op = "verify" /\ IsGroup(tx)) =>
        (last.result = (Cardinality(ValidAuthorizedKeys(tx)) >= tx.required_signatures))

(* C22 amended: in group mode verify succeeds if and only if at least M   *)
(* entries are collected and every entry is authorized, distinct and      *)
(* valid; then the distinct valid authorized keys number at least M.      *)
C22_VerifyIffAllEntriesGood ==
    (last.op = "verify" /\ IsGroup(tx)) =>
        /\ last.result = (/\ Len(tx.signers) >= tx.required_signatures
                          /\ \A i \in 1..Len(tx.signers) : ~BadEntry(tx, i))
        /\ last.result => Cardinality(ValidAuthorizedKeys(tx)) >= tx.required_signatures

(* verify succeeded on a list with more than M entries *)
C22_Witness ==
    /\ last.op = "verify" /\ IsGroup(tx) /\ last.result
    /\ Len(tx.signers) > tx.required_signatures

(* the entries of the canonical encoding every transaction carries, and   *)
(* the entries the kind of the transaction calls for                       *)
CommonEntries == {"Fee", "From", "Timestamp", "TxType"}

KindEntries(tx_type) ==
    CASE tx_type = TX_STANDARD -> {"To", "Amount"}
      [] tx_type = TX_CONTRACT_DEPLOY -> {"ContractCode", "Amount"}
      [] tx_type = TX_CONTRACT_CALL ->
             {"TargetContractAddress", "FunctionName", "Arguments", "Amount"}

(* C23: the canonical encoding of every constructed transaction has fee,  *)
(* sender, timestamp and kind tag and every entry of its kind, whether or *)
(* not the field's value is empty or absent (a transaction that lacks a   *)
(* field of its kind is never constructed).                                *)
C23_EncodingHasFieldsOfKind ==
    \A e \in CommonEntries \cup KindEntries(tx.tx_type) :
        payload_to_hash(tx)[e] # Absent

(* C24: the canonical encoding has the signer's public key only in single *)
(* mode (whenever one is set) and has M with the sorted authorized keys   *)
(* exactly in group mode; in group mode the digest changes with M and     *)
(* with the authorized key set and not with public_key_hex.                *)
C24_ModeEntriesOfEncoding ==
    LET p == payload_to_hash(tx)
    IN  /\ (p.PublicKey # Absent) = (~IsGroup(tx) /\ Truthy(tx.public_key_hex))
        /\ (p.RequiredSignatures # Absent) = IsGroup(tx)
        /\ (p.AuthorizedPublicKeys # Absent) = IsGroup(tx)
        /\ IsGroup(tx) =>
              /\ p.RequiredSignatures = In(tx.required_signatures)
              /\ p.AuthorizedPublicKeys = In(SortedSet(Range(tx.authorized_public_keys_hex)))
              /\ \A m \in 0..(MaxM + 1) :
                    m # tx.required_signatures =>
                       calculate_hash([tx EXCEPT !.required_signatures = m]) # calculate_hash(tx)
              /\ \A S \in SUBSET KeyHexes :
                    S # Range(tx.authorized_public_keys_hex) =>
                       calculate_hash([tx EXCEPT !.authorized_public_keys_hex = SortedSet(S)])
                          # calculate_hash(tx)
              /\ \A pk \in {None, Str(get_public_key_bytes(1)), Str(get_public_key_bytes(2))} :
                    calculate_hash([tx EXCEPT !.public_key_hex = pk]) = calculate_hash(tx)

(* C25: in every interleaving of the load, add_signature and save steps   *)
(* of concurrent sign-tx sessions, the record a session writes has the    *)
(* signers of the record that session loaded plus at most the session's   *)
(* own signer, carries the id fixed at initiation, and its signers are    *)
(* authorized, distinct and sorted.                                        *)
C25_SessionWritesLoadedPlusOwn ==
    [][\A s \in Sessions :
          (sess[s].pc = "signed" /\ sess'[s].pc = "done") =>
             LET written == from_dict_for_file(file'[1])
                 loaded == from_dict_for_file(sess[s].loaded[1])
                 added == Range(written.signers) \ Range(loaded.signers)
             IN  /\ Range(loaded.signers) \subseteq Range(written.signers)
                 /\ Cardinality(added) <= 1
                 /\ \A x \in added :
                       x.public_key_hex = get_public_key_bytes(sess[s].wallet)
                 /\ Len(written.signers) = Cardinality(Range(written.signers))
                 /\ written.id_hex = tx.id_hex
                 /\ written.id_hex = Str(calculate_hash(written))
                 /\ SignersWellFormed(SignerKeys(written),
                                      written.authorized_public_keys_hex)]_vars

(* two sessions loaded the record before either wrote: each holds its own *)
(* signature, both have written, and the file has the signer of one        *)
C25_Witness ==
    \E s1, s2 \in Sessions :
       /\ s1 # s2
       /\ sess[s1].pc = "done" /\ sess[s2].pc = "done"
       /\ sess[s1].loaded = sess[s2].loaded
       /\ sess[s1].loaded # <<>>
       /\ Len(sess[s1].tx[1].signers) = 1 /\ Len(sess[s2].tx[1].signers) = 1
       /\ sess[s1].tx[1].signers # sess[s2].tx[1].signers
       /\ last.op = "session_save"
       /\ Len(from_dict_for_file(file[1]).signers) = 1

SubmitCommands == {"create_transaction", "broadcast_tx"}

(* C26: whenever create-transaction or broadcast-tx hands a transaction   *)
(* to send_transaction, the threshold verifier has succeeded on it: a     *)
(* transaction for which verify is false is never handed over.             *)
C26_VerifiedBeforeSubmission ==
    [][(last'.op \in SubmitCommands /\ last'.outcome \in SendCalled)
          => verify_signatures_python(tx')]_vars

(* C27: broadcast-tx of a group transaction whose collected signatures    *)
(* meet the threshold ends with the transaction posted to the node;       *)
(* send_transaction does not refuse it as unsigned.                        *)
C27_ThresholdMetIsSubmitted ==
    [][(/\ last'.op = "broadcast_tx"
        /\ IsGroup(tx')
        /\ verify_signatures_python(tx'))
          => last'.outcome \in {"submitted", "failed"}]_vars

(* the sender is the one the authorizing keys determine *)
SenderBoundToKeys(t) ==
    IF IsGroup(t)
    THEN LET derived == derive_multisig_address(t.required_signatures,
                                                t.authorized_public_keys_hex)
         IN  derived.ok /\ t.from_address_hex = Str(derived.address)
    ELSE t.from_address_hex = t.public_key_hex

(* C28: whenever verify returns true, the sender is the public key whose  *)
(* signature was checked (single mode) or the identifier                  *)
(* derive_multisig_address(M, authorized keys) (group mode).               *)
C28_SenderBoundToKeys ==
    verify_signatures_python(tx) => SenderBoundToKeys(tx)

(* C29: whenever add_signature returns successfully on a group            *)
(* transaction, whether or not it appended a signature, the stored id is  *)
(* set and is the canonical digest of the transaction's content.           *)
C29_IdIsDigestAfterAddSignature ==
    [][(/\ last'.op = "add_signature" /\ last'.outcome = "ok"
        /\ IsGroup(tx'))
          => (tx'.id_hex # None /\ tx'.id_hex = Str(calculate_hash(tx')))]_vars

(* C30: load_multisig_config returns a config only if the stored list of  *)
(* authorized keys is sorted; a record with the keys in another order is  *)
(* rejected by the re-derivation.                                          *)
C30_LoadAcceptsOnlySortedKeys ==
    (ret.fn = "load" /\ ret.outcome = "ok") =>
        LET keys == ret.config[1].authorized_public_keys_hex
        IN  sorted(keys) = keys

====
